---- MODULE Spec2Model ----
(***************************************************************************)
(* A model of blossom-drive-client: the Drive engine (src/src/Drive.ts),   *)
(* the EncryptedDrive engine (src/src/EncryptedDrive.ts) and the Upload    *)
(* orchestrator (src/src/Upload.ts).                                       *)
(*                                                                         *)
(* One drive object is modelled.  Its fields are the variables event,      *)
(* metadata, tree, modified, locked, logn and password (the entry of the   *)
(* module-level WeakMap drivePasswords for this drive).  The methods are   *)
(* written as operators over a record d that holds those fields, so that a *)
(* method that calls another (save -> update -> resetFromEvent ->          *)
(* readEvent) is the composition of the operators.  Every method returns a *)
(* record [d, ret, emits]: the object afterwards, the returned value       *)
(* ("true", "false", "void" or "throw") and the notifications it emitted.  *)
(***************************************************************************)
EXTENDS Integers, Sequences, FiniteSets, Bags, TLC

VARIABLES
  encrypted,  \* TRUE when the object is an EncryptedDrive, FALSE for a Drive
  event,      \* Drive.event: the resident manifest event, or NoEvent
  metadata,   \* Drive._metadata
  tree,       \* Drive.tree
  modified,   \* Drive.modified
  locked,     \* EncryptedDrive.locked
  logn,       \* EncryptedDrive.logn
  password,   \* drivePasswords.get(this), NoPassword when there is no entry
  saves,      \* the save() calls in flight: a bag of [pc, template, by]
  blobCalls,  \* the encryptBlob, decryptBlob and downloadFile calls in flight
  adds,       \* the addFileList and addFileSystemEntry calls in flight
  last,       \* what the last completed call was, returned, emitted and invoked
  up          \* the Upload object and the position of its upload() call

vars == <<encrypted, event, metadata, tree, modified, locked, logn, password,
          saves, blobCalls, adds, last, up>>

-----------------------------------------------------------------------------
(* Bounds of the model *)

\* created_at and now() range over 1..MaxTime
MaxTime == 2
\* number of files of the upload batch
MaxFiles == 2
\* number of save() calls the application has in flight at once
MaxSaves == 2
\* number of encryptBlob, decryptBlob and downloadFile calls in flight at once
MaxBlobCalls == 1
\* number of addFileList and addFileSystemEntry calls in flight at once
MaxAdds == 1

-----------------------------------------------------------------------------
(* Program constants *)

DRIVE_KIND == 30563
ENCRYPTED_DRIVE_KIND == 30564
DEFAULT_SCRYPT_LOGN == 10
\* EncryptedDrive.update accepts a scrypt-logn tag value n with 0 < n <= 22
MAX_SCRYPT_LOGN == 22

-----------------------------------------------------------------------------
(* Values *)

Times == 1..MaxTime

\* `undefined` for this.event
NoEvent == [none |-> TRUE]
\* no entry in drivePasswords; `!password` also holds of the empty string
NoPassword == ""
Passwords == {"p1", "p2"}
\* `undefined` for a string
Undefined == "<undefined>"

\* storage server URLs, and new URL("/", u).toString(): the origin root of u
S1 == "https://s1/"
S1x == "https://s1/x"
S2 == "https://s2/"
RootURL(u) == IF u = S1x THEN S1 ELSE u

\* String(n) and parseInt(s) on the decimal strings the model uses
Decimals == <<"1", "2", "3", "4", "5", "6", "7", "8", "9", "10", "11", "12",
              "13", "14", "15", "16", "17", "18", "19", "20", "21", "22", "23">>
\* NaN, the result of parseInt on a string with no leading number
NaN == -999
String(n) == IF n \in 1..Len(Decimals) THEN Decimals[n] ELSE "0"
parseInt(s) ==
  IF \E n \in 1..Len(Decimals) : Decimals[n] = s
    THEN CHOOSE n \in 1..Len(Decimals) : Decimals[n] = s
    ELSE IF s = "0" THEN 0 ELSE IF s = "-1" THEN -1 ELSE NaN
isFinite(n) == n # NaN

\* paths of the tree: a file at the root, a folder, a file in the folder
Paths == {"a", "f", "f/b"}
PathOrder == <<"a", "f", "f/b">>
FilePaths == {"a", "f/b"}
FolderPaths == {"f"}
Parent(p) == IF p = "f/b" THEN "f" ELSE ""

Absent == [absent |-> TRUE]
FolderNode == [folder |-> TRUE]
M1 == [sha256 |-> "h1", size |-> 1, type |-> "text/plain"]
M2 == [sha256 |-> "h2", size |-> 2, type |-> "text/plain"]
FileMetadata == {M1, M2}
IsFile(n) == n \in FileMetadata
IsFolder(n) == n = FolderNode

\* new TreeFolder("")
EmptyTree == [p \in Paths |-> Absent]

\* getEmptyMetadata(); pubkey is undefined
getEmptyMetadata ==
  [name |-> "", identifier |-> "", description |-> "", servers |-> <<>>,
   pubkey |-> Undefined, treeTags |-> <<>>]

-----------------------------------------------------------------------------
(* Sequences of tags.  A tag is a tuple of strings whose first element is  *)
(* its key: t[0] of the source is t[1] here, t[1] of the source is t[2].   *)

RECURSIVE Reverse(_)
Reverse(s) == IF s = <<>> THEN <<>> ELSE Reverse(Tail(s)) \o <<Head(s)>>

\* tags.map((t) => new URL("/", t[1]).toString())
RootURLs(tags) == [i \in 1..Len(tags) |-> RootURL(tags[i][2])]

\* the ["server", new URL("/", server).toString()] tag of each server
ServerTags(servers) == [i \in 1..Len(servers) |-> <<"server", RootURL(servers[i])>>]

\* tags.filter((t) => keys.includes(t[0]))
TagsWith(tags, keys) == SelectSeq(tags, LAMBDA t : t[1] \in keys)
TagsWithout(tags, keys) == SelectSeq(tags, LAMBDA t : t[1] \notin keys)

\* tags.find((t) => t[0] === key)?.[1]
TagValue(tags, key) ==
  IF TagsWith(tags, {key}) = <<>> THEN Undefined ELSE Head(TagsWith(tags, {key}))[2]

\* a ?? b
Coalesce(a, b) == IF a = Undefined THEN b ELSE a

\* whether the tags hold a "d" tag with a value
HasIdentifier(tags) == \E i \in 1..Len(tags) : tags[i][1] = "d" /\ tags[i][2] # ""

-----------------------------------------------------------------------------
(* The tree model: FileTree/methods.js and nostr.js.  A tree is a function *)
(* from Paths to the node at that path.  Each operation returns            *)
(* [ok, tree]; ok = FALSE is a thrown error and leaves the tree as it was. *)

\* methods.getFolder(tree, path, create): the folder at path
getFolder(t, path, create) ==
  IF IsFolder(t[path]) THEN [ok |-> TRUE, tree |-> t]
  ELSE IF t[path] = Absent /\ create /\ Parent(path) = ""
    THEN [ok |-> TRUE, tree |-> [t EXCEPT ![path] = FolderNode]]
    ELSE [ok |-> FALSE, tree |-> t]

\* methods.getPath(tree, path, create): the node at path
getPath(t, path, create) ==
  IF t[path] # Absent THEN [ok |-> TRUE, tree |-> t]
  ELSE IF create /\ path \in FolderPaths
    THEN [ok |-> TRUE, tree |-> [t EXCEPT ![path] = FolderNode]]
    ELSE [ok |-> FALSE, tree |-> t]

\* methods.setFile(tree, path, metadata): creates or overwrites the leaf at
\* path, creating the folders above it
setFile(t, path, meta) ==
  IF IsFolder(t[path]) THEN [ok |-> FALSE, tree |-> t]
  ELSE IF Parent(path) = "" THEN [ok |-> TRUE, tree |-> [t EXCEPT ![path] = meta]]
  ELSE IF getFolder(t, Parent(path), TRUE).ok
    THEN [ok |-> TRUE,
          tree |-> [getFolder(t, Parent(path), TRUE).tree EXCEPT ![path] = meta]]
    ELSE [ok |-> FALSE, tree |-> t]

\* methods.remove(tree, path): detaches the node at path and what is below it
remove(t, path) ==
  IF t[path] = Absent THEN [ok |-> FALSE, tree |-> t]
  ELSE [ok |-> TRUE,
        tree |-> [p \in Paths |-> IF p = path \/ Parent(p) = path THEN Absent ELSE t[p]]]

\* methods.move(tree, src, dest): detaches the file at src, attaches it at dest
move(t, src, dest) ==
  IF ~IsFile(t[src]) \/ ~remove(t, src).ok THEN [ok |-> FALSE, tree |-> t]
  ELSE IF setFile(remove(t, src).tree, dest, t[src]).ok
    THEN setFile(remove(t, src).tree, dest, t[src])
    ELSE [ok |-> FALSE, tree |-> t]

\* the tag of the node at path p: ["x", sha256, path, size, type] for a file,
\* ["folder", path] for a folder
NodeTag(t, p) ==
  IF IsFolder(t[p]) THEN <<"folder", p>>
  ELSE <<"x", t[p].sha256, p, String(t[p].size), t[p].type>>

RECURSIVE TreeTagsFrom(_, _)
TreeTagsFrom(t, i) ==
  IF i > Len(PathOrder) THEN <<>>
  ELSE (IF t[PathOrder[i]] = Absent THEN <<>> ELSE <<NodeTag(t, PathOrder[i])>>)
       \o TreeTagsFrom(t, i + 1)

\* nostr.updateTreeInTags(tags, tree): the tags without their "x" and "folder"
\* tags, followed by the tags of the tree
updateTreeInTags(tags, t) == TagsWithout(tags, {"x", "folder"}) \o TreeTagsFrom(t, 1)

\* nostr.createTreeFromTags(tags): the tree the "x" and "folder" tags describe
RECURSIVE createTreeFrom(_, _)
createTreeFrom(tags, t) ==
  IF tags = <<>> THEN t
  ELSE LET tag == Head(tags)
           next == IF tag[1] = "x"
                     THEN setFile(t, tag[3],
                            [sha256 |-> tag[2], size |-> parseInt(tag[4]), type |-> tag[5]]).tree
                   ELSE IF tag[1] = "folder" THEN getFolder(t, tag[2], TRUE).tree
                   ELSE t
       IN createTreeFrom(Tail(tags), next)
createTreeFromTags(tags) == createTreeFrom(tags, EmptyTree)

-----------------------------------------------------------------------------
(* crypto.js.  A ciphertext is the plaintext with the password and cost it *)
(* was encrypted under; decryption fails under any other password.  The    *)
(* content of a plain manifest event is the empty string, EmptyContent.    *)

EmptyContent == [key |-> "", logn |-> 0, data |-> <<>>]
encrypt(plaintext, pw, n) == [key |-> pw, logn |-> n, data |-> plaintext]
decrypt(ciphertext, pw) ==
  IF ciphertext.key = pw /\ pw # ""
    THEN [ok |-> TRUE, data |-> ciphertext.data]
    ELSE [ok |-> FALSE, data |-> <<>>]

-----------------------------------------------------------------------------
(* Drive (src/src/Drive.ts) and EncryptedDrive (src/src/EncryptedDrive.ts) *)
(* as operators over the object d.                                         *)

\* the object `this`
self ==
  [encrypted |-> encrypted, event |-> event, metadata |-> metadata, tree |-> tree,
   modified |-> modified, locked |-> locked, logn |-> logn, password |-> password]

\* a completed call: the object afterwards, the value returned, the
\* notifications emitted
Done(d, ret, emits) == [d |-> d, ret |-> ret, emits |-> emits]

\* Drive.readEvent(event), given the tags, the pubkey and this.identifier
Drive_readEvent(d, tags, pubkey) ==
  LET name == Coalesce(TagValue(tags, "name"), d.metadata.identifier)
      description == Coalesce(TagValue(tags, "description"), "")
      servers == RootURLs(SelectSeq(tags, LAMBDA t : t[1] \in {"r", "server"} /\ t[2] # ""))
      identifier == TagValue(tags, "d")
  IN IF identifier = Undefined \/ identifier = ""
       THEN [ok |-> FALSE, locked |-> d.locked, md |-> d.metadata]
       ELSE [ok |-> TRUE, locked |-> d.locked,
             md |-> [name |-> name, identifier |-> identifier,
                     description |-> description, servers |-> servers,
                     pubkey |-> pubkey, treeTags |-> TagsWith(tags, {"x", "folder"})]]

\* EncryptedDrive.readEvent(event): decrypts the content with the password
\* and reads the tags it holds; this.locked = false once decrypted
EncryptedDrive_readEvent(d, ev) ==
  IF d.password = NoPassword
    THEN [ok |-> FALSE, locked |-> d.locked, md |-> d.metadata]
  ELSE IF ~decrypt(ev.content, d.password).ok
    THEN [ok |-> FALSE, locked |-> d.locked, md |-> d.metadata]
  ELSE [Drive_readEvent(d, decrypt(ev.content, d.password).data, ev.pubkey)
          EXCEPT !.locked = FALSE]

\* this.readEvent(event), dispatched on the class of the object
readEvent(d, ev) ==
  IF d.encrypted THEN EncryptedDrive_readEvent(d, ev)
  ELSE Drive_readEvent(d, ev.tags, ev.pubkey)

\* Drive.resetFromEvent()
resetFromEvent(d) ==
  IF d.event = NoEvent THEN Done(d, "void", <<>>)
  ELSE LET r == readEvent(d, d.event)
       IN IF ~r.ok THEN Done([d EXCEPT !.locked = r.locked], "throw", <<>>)
          ELSE Done([d EXCEPT !.locked = r.locked, !.metadata = r.md,
                              !.tree = createTreeFromTags(r.md.treeTags),
                              !.modified = FALSE],
                    "void", <<"change">>)


\* IsNewer with >= for >: an event of the same second replaces the resident one
IsNewer_orEqual(d, ev) == d.event = NoEvent \/ ev.created_at >= d.event.created_at

\* IsNewer without the comparison: any event replaces the resident one
IsNewer_any(d, ev) == TRUE

\* the test of update: no resident event, or a strictly newer one
IsNewer(d, ev) == d.event = NoEvent \/ ev.created_at > d.event.created_at

\* Drive.update(event)
Drive_update(d, ev) ==
  IF IsNewer(d, ev)
    THEN LET r == resetFromEvent([d EXCEPT !.event = ev])
         IN IF r.ret = "throw" THEN r
            ELSE Done(r.d, "true", r.emits \o <<"update">>)
    ELSE Done(d, "false", <<>>)

\* ParseLogn without the upper bound of the range
ParseLogn_noUpperBound(tags) ==
  LET n == parseInt(Coalesce(TagValue(tags, "scrypt-logn"), ""))
  IN IF isFinite(n) /\ n > 0 THEN n ELSE DEFAULT_SCRYPT_LOGN

\* the scrypt-logn value EncryptedDrive.update takes from the tags
ParseLogn(tags) ==
  LET n == parseInt(Coalesce(TagValue(tags, "scrypt-logn"), ""))
  IN IF isFinite(n) /\ n > 0 /\ n <= MAX_SCRYPT_LOGN THEN n ELSE DEFAULT_SCRYPT_LOGN

\* EncryptedDrive.update(event)
EncryptedDrive_update(d, ev) ==
  IF ~d.locked THEN Drive_update(d, ev)
  ELSE IF IsNewer(d, ev)
    THEN Done([d EXCEPT !.event = ev,
                        !.metadata.identifier = Coalesce(TagValue(ev.tags, "d"), ""),
                        !.logn = ParseLogn(ev.tags),
                        !.metadata.pubkey =
                          IF ev.pubkey = Undefined THEN d.metadata.pubkey ELSE ev.pubkey],
              "true", <<>>)
    ELSE Done(d, "false", <<>>)

\* this.update(event), dispatched on the class of the object
update(d, ev) == IF d.encrypted THEN EncryptedDrive_update(d, ev) ELSE Drive_update(d, ev)

\* Drive.createEventTemplate(), with now() = now
Drive_createEventTemplate(d, now) ==
  LET old == IF d.event = NoEvent THEN <<>> ELSE d.event.tags
      kept == TagsWithout(updateTreeInTags(old, d.tree),
                          {"name", "description", "d", "r", "server"})
      servers == Reverse(ServerTags(d.metadata.servers))
  IN [kind |-> DRIVE_KIND,
      content |-> IF d.event = NoEvent THEN EmptyContent ELSE d.event.content,
      created_at |-> now,
      tags |-> <<<<"name", d.metadata.name>>,
                 <<"description", d.metadata.description>>,
                 <<"d", d.metadata.identifier>>>> \o servers \o kept,
      pubkey |-> Undefined]


\* the filter of the public tags letting the name through
PublicTags_withName(tags, n) ==
  TagsWith(tags, {"d", "name"}) \o <<<<"scrypt-logn", String(n)>>>>

\* the tags EncryptedDrive.createEventTemplate leaves public
PublicTags(tags, n) == TagsWith(tags, {"d"}) \o <<<<"scrypt-logn", String(n)>>>>

\* EncryptedDrive.createEventTemplate(); defined when a password is set
EncryptedDrive_createEventTemplate(d, now) ==
  LET t == Drive_createEventTemplate(d, now)
  IN [t EXCEPT !.kind = ENCRYPTED_DRIVE_KIND,
               !.content = encrypt(t.tags, d.password, d.logn),
               !.tags = PublicTags(t.tags, d.logn)]

\* whether this.createEventTemplate() throws "No password set"
TemplateThrows(d) == d.encrypted /\ d.password = NoPassword

\* this.createEventTemplate(), dispatched on the class of the object
createEventTemplate(d, now) ==
  IF d.encrypted THEN EncryptedDrive_createEventTemplate(d, now)
  ELSE Drive_createEventTemplate(d, now)

\* Drive.reset()
reset(d) ==
  IF d.modified
    THEN LET r == resetFromEvent(d)
         IN IF r.ret = "throw" THEN r
            ELSE Done([r.d EXCEPT !.modified = FALSE], "void", r.emits \o <<"change">>)
    ELSE Done(d, "void", <<>>)

-----------------------------------------------------------------------------
(* Manifest events that arrive from relays *)

PK == "pk1"

\* tag lists of plain manifests: without a name, complete, with two servers
\* of one origin and a folder, and without the identifier
TagsNoName == <<<<"d", "d1">>>>
TagsFull ==
  <<<<"name", "n1">>, <<"description", "about">>, <<"d", "d1">>, <<"server", S1>>,
    <<"x", "h1", "a", "1", "text/plain">>>>
TagsTwoServers ==
  <<<<"d", "d2">>, <<"server", S2>>, <<"r", S1x>>, <<"server", S1>>,
    <<"folder", "f">>, <<"x", "h2", "f/b", "2", "text/plain">>>>
TagsNoIdentifier == <<<<"name", "n1">>>>
ManifestTags == {TagsNoName, TagsFull, TagsTwoServers, TagsNoIdentifier}

PlainEvents ==
  {[kind |-> DRIVE_KIND, content |-> EmptyContent, created_at |-> ts, tags |-> tags,
    pubkey |-> PK] : ts \in Times, tags \in ManifestTags}

\* encrypted manifests: the public tags and the tags inside the ciphertext,
\* which was encrypted under the password p1
EncryptedEvents ==
  {[kind |-> ENCRYPTED_DRIVE_KIND, content |-> encrypt(inner, key, 12),
    created_at |-> ts, tags |-> <<<<"d", "d1">>, <<"scrypt-logn", "12">>>>,
    pubkey |-> PK] :
     ts \in Times, key \in {"p1"}, inner \in {TagsFull, TagsNoIdentifier}}
  \cup
  {[kind |-> ENCRYPTED_DRIVE_KIND, content |-> encrypt(TagsNoName, "p1", 10),
    created_at |-> ts, tags |-> <<<<"d", "d2">>, <<"scrypt-logn", "23">>>>,
    pubkey |-> PK] : ts \in Times}

\* the events a relay can deliver to a drive of this class
InboundEvents == IF encrypted THEN EncryptedEvents ELSE PlainEvents

\* the tags of the manifest: those of the ciphertext for an encrypted one
ManifestOf(ev) == IF ev.kind = ENCRYPTED_DRIVE_KIND THEN ev.content.data ELSE ev.tags

\* the complete manifests among them, and those that carry an identifier
CompleteEvents == {ev \in InboundEvents : ManifestOf(ev) = TagsFull}
WellFormedEvents == {ev \in InboundEvents : HasIdentifier(ManifestOf(ev))}

-----------------------------------------------------------------------------
(* State *)

\* the record of the last completed call
Call(op, ret, emits, calls, stamp) ==
  [op |-> op, ret |-> ret, emits |-> emits, calls |-> calls, stamp |-> stamp]

\* the servers of the Upload object
UploadServers == <<S1, S2>>
NumServers == Len(UploadServers)

\* new Upload(drive, basePath, servers, signer): no file yet, not running.
\* pc is the await upload() is suspended at; n is files.length; i and j are
\* the file and the server of the loops; blobs and errors hold the
\* <<server, file>> pairs recorded; auths, attempts and saves count the
\* calls of createUploadAuth, uploadBlob and drive.save
NoUpload ==
  [pc |-> "off", running |-> FALSE, complete |-> FALSE, n |-> 0, i |-> 0, j |-> 0,
   blobs |-> {}, errors |-> {},
   status |-> <<>>,
   auths |-> 0, attempts |-> 0, saves |-> 0]

Init ==
  /\ encrypted \in BOOLEAN
  /\ event = NoEvent
  /\ metadata = getEmptyMetadata
  /\ tree = EmptyTree
  /\ modified = FALSE
  /\ locked = TRUE
  /\ logn = DEFAULT_SCRYPT_LOGN
  /\ password = NoPassword
  /\ saves = EmptyBag
  /\ blobCalls = EmptyBag
  /\ adds = EmptyBag
  /\ last = Call("new", "void", <<>>, {}, 0)
  /\ up = NoUpload

\* the fields of the object become those of d
Becomes(d) ==
  /\ event' = d.event
  /\ metadata' = d.metadata
  /\ tree' = d.tree
  /\ modified' = d.modified
  /\ locked' = d.locked
  /\ logn' = d.logn
  /\ password' = d.password
  /\ UNCHANGED encrypted

\* a synchronous method call that completes with r
Returns(op, r) ==
  /\ Becomes(r.d)
  /\ last' = Call(op, r.ret, r.emits, {}, 0)
  /\ UNCHANGED <<saves, blobCalls, adds, up>>

-----------------------------------------------------------------------------
(* Actions of the drive *)

\* drive.update(ev) with an event from a relay
Update(ev) == Returns("update", update(self, ev))

\* drive.reset()
Reset == Returns("reset", reset(self))

\* a setter of Drive: assigns the field, sets modified, emits "change"
SetField(op, field, v) ==
  Returns(op, Done([self EXCEPT !.metadata[field] = v, !.modified = TRUE],
                   "void", <<"change">>))
SetIdentifier == SetField("set identifier", "identifier", "d3")
SetName == SetField("set name", "name", "n2")
SetDescription == SetField("set description", "description", "about")
SetServers == \E v \in {<<S1>>, <<S1, S2>>} : SetField("set servers", "servers", v)

\* a tree method of Drive that sets modified and emits "change" when the
\* method of the tree does not throw
Mutates(op, r) ==
  Returns(op, IF r.ok THEN Done([self EXCEPT !.tree = r.tree, !.modified = TRUE],
                                "void", <<"change">>)
              ELSE Done(self, "throw", <<>>))

\* drive.remove(path)
Remove(path) == Mutates("remove", remove(tree, path))
\* drive.move(src, dest)
Move(src, dest) == Mutates("move", move(tree, src, dest))
\* drive.setFile(path, metadata)
SetFile(path, meta) == Mutates("setFile", setFile(tree, path, meta))

\* drive.getFolder(path, create)
GetFolder(path, create) ==
  LET r == getFolder(tree, path, create)
  IN Returns(IF create THEN "getFolder create" ELSE "getFolder",
             IF r.ok THEN Done([self EXCEPT !.tree = r.tree,
                                            !.modified = IF create THEN TRUE ELSE @],
                               "void", <<>>)
             ELSE Done(self, "throw", <<>>))

\* drive.getPath(path, create)
GetPath(path, create) ==
  LET r == getPath(tree, path, create)
  IN Returns(IF create THEN "getPath create" ELSE "getPath",
             IF r.ok THEN Done([self EXCEPT !.tree = r.tree], "void", <<>>)
             ELSE Done(self, "throw", <<>>))

-----------------------------------------------------------------------------
(* Actions of the encrypted drive *)

\* EncryptedDrive.unlock(password)
unlock(d, pw) ==
  IF d.event = NoEvent THEN Done(d, "throw", <<>>)
  ELSE IF ~d.locked THEN Done(d, "throw", <<>>)
  ELSE LET r == resetFromEvent([d EXCEPT !.password = pw, !.locked = FALSE])
       IN IF r.ret = "throw"
            THEN Done([r.d EXCEPT !.password = NoPassword, !.locked = TRUE], "throw", <<>>)
            ELSE r


\* lock() that forgets to replace the tree
lock_keepsTree(d) ==
  IF ~d.locked
    THEN Done([d EXCEPT !.password = NoPassword, !.locked = FALSE,
                        !.metadata = getEmptyMetadata],
              "void", <<>>)
    ELSE Done(d, "void", <<>>)

\* EncryptedDrive.lock()
lock(d) ==
  IF ~d.locked
    THEN Done([d EXCEPT !.password = NoPassword, !.locked = FALSE,
                        !.metadata = getEmptyMetadata, !.tree = EmptyTree],
              "void", <<>>)
    ELSE Done(d, "void", <<>>)

\* EncryptedDrive.setPassword(password, logn)
setPassword(d, pw, n) ==
  IF d.locked /\ d.password = NoPassword
    THEN Done([d EXCEPT !.password = pw, !.logn = n], "void", <<>>)
    ELSE Done(d, "void", <<>>)

Unlock(pw) == encrypted /\ Returns("unlock", unlock(self, pw))
Lock == encrypted /\ Returns("lock", lock(self))
SetPassword(pw, n) == encrypted /\ Returns("setPassword", setPassword(self, pw, n))


\* the guard without its test of the password
BlobGuardThrows_lockedOnly(d) == d.locked

\* whether encryptBlob, decryptBlob and downloadFile throw at their first
\* two statements: "Drive locked", "No password provided"
BlobGuardThrows(d) == d.locked \/ d.password = NoPassword

\* the bag with one more copy of c, and with one copy of c less
Add(bag, c) == bag (+) SetToBag({c})
Drop(bag, c) == bag (-) SetToBag({c})

\* the passwords a blob at hand, or one a server answers with, may have been
\* encrypted under
BlobKeys == Passwords
\* such a blob
Ciphertext(key) == encrypt(<<>>, key, DEFAULT_SCRYPT_LOGN)

\* a call of encryptBlob, decryptBlob or downloadFile suspended at the await
\* pc: the password it read before the await, the key of the blob it holds,
\* the copy of this.servers and the server j of its loop, what it has invoked
BlobCall(op, pc, pw, key, servers, j, calls) ==
  [op |-> op, pc |-> pc, password |-> pw, key |-> key, servers |-> servers, j |-> j,
   calls |-> calls]

\* a call that leaves the object as it is: what it returned and invoked
Observes(op, ret, calls) ==
  /\ last' = Call(op, ret, <<>>, calls, 0)
  /\ UNCHANGED <<encrypted, event, metadata, tree, modified, locked, logn, password,
                 saves, blobCalls, adds, up>>

\* a call that runs to its first await and is suspended there as c
Suspends(op, c) ==
  /\ BagCardinality(blobCalls) < MaxBlobCalls
  /\ blobCalls' = Add(blobCalls, c)
  /\ last' = Call(op, "await", <<>>, c.calls, 0)
  /\ UNCHANGED <<encrypted, event, metadata, tree, modified, locked, logn, password,
                 saves, adds, up>>

\* the suspended call c runs to its next await and is suspended there as c2
Continues(c, c2, op) ==
  /\ blobCalls' = Add(Drop(blobCalls, c), c2)
  /\ last' = Call(op, "await", <<>>, c2.calls, 0)
  /\ UNCHANGED <<encrypted, event, metadata, tree, modified, locked, logn, password,
                 saves, adds, up>>

\* the suspended call c runs to its end: what it returned and invoked
Completes(c, op, ret, calls) ==
  /\ blobCalls' = Drop(blobCalls, c)
  /\ last' = Call(op, ret, <<>>, calls, 0)
  /\ UNCHANGED <<encrypted, event, metadata, tree, modified, locked, logn, password,
                 saves, adds, up>>

\* EncryptedDrive.encryptBlob(blob) up to `await blob.arrayBuffer()`
EncryptBlob ==
  /\ encrypted
  /\ IF BlobGuardThrows(self) THEN Observes("encryptBlob", "throw", {})
     ELSE Suspends("encryptBlob",
                   BlobCall("encryptBlob", "arrayBuffer", password, "", <<>>, 0, {}))

\* blob.arrayBuffer() resolves: encrypt(buffer, password, this.logn) with the
\* password read before the await, whatever the drive holds now
EncryptBlobResumes ==
  \E c \in BagToSet(blobCalls) :
    /\ c.op = "encryptBlob"
    /\ Completes(c, "encryptBlob returns", "blob", {"encrypt"})

\* EncryptedDrive.decryptBlob(blob, type) up to `await blob.arrayBuffer()`,
\* for a blob that was encrypted under key
DecryptBlob(key) ==
  /\ encrypted
  /\ IF BlobGuardThrows(self) THEN Observes("decryptBlob", "throw", {})
     ELSE Suspends("decryptBlob",
                   BlobCall("decryptBlob", "arrayBuffer", password, key, <<>>, 0, {}))

\* blob.arrayBuffer() resolves: decrypt(buffer, password) with the password
\* read before the await; decrypt throws on a blob of another password
DecryptBlobResumes ==
  \E c \in BagToSet(blobCalls) :
    /\ c.op = "decryptBlob"
    /\ Completes(c, "decryptBlob returns",
                 IF decrypt(Ciphertext(c.key), c.password).ok THEN "blob" ELSE "throw",
                 {"decrypt"})

\* EncryptedDrive.downloadFile(path) up to the first `await getBlob`
DownloadFile(path) ==
  /\ encrypted
  /\ IF BlobGuardThrows(self) THEN Observes("downloadFile", "throw", {})
     ELSE IF ~IsFile(tree[path]) THEN Observes("downloadFile", "throw", {})
     ELSE IF metadata.servers = <<>> THEN Observes("downloadFile", "null", {})
     ELSE Suspends("downloadFile",
                   BlobCall("downloadFile", "getBlob", NoPassword, "", metadata.servers, 1,
                            {"network"}))

\* the catch of the loop over the servers of downloadFile: the next server
\* is asked, or null is returned after the last one
NextServer(c, calls) ==
  IF c.j < Len(c.servers)
    THEN Continues(c, [c EXCEPT !.pc = "getBlob", !.j = @ + 1, !.password = NoPassword,
                                !.key = "", !.calls = calls \cup {"network"}],
                   "downloadFile resumes")
    ELSE Completes(c, "downloadFile returns", "null", calls)

\* BlossomClient.getBlob settles: it rejects ("reject"), or resolves with a
\* blob encrypted under the key answer, and this.decryptBlob(data) tests the
\* drive as it is now and runs to `await blob.arrayBuffer()`
DownloadAnswered(answer) ==
  \E c \in BagToSet(blobCalls) :
    /\ c.op = "downloadFile"
    /\ c.pc = "getBlob"
    /\ IF answer = "reject" THEN NextServer(c, c.calls)
       ELSE IF BlobGuardThrows(self) THEN NextServer(c, c.calls)
       ELSE Continues(c, [c EXCEPT !.pc = "arrayBuffer", !.password = password,
                                   !.key = answer],
                      "downloadFile resumes")

\* the decryptBlob of downloadFile resumes: the file is returned, or decrypt
\* throws and the loop goes on
DownloadDecrypted ==
  \E c \in BagToSet(blobCalls) :
    /\ c.op = "downloadFile"
    /\ c.pc = "arrayBuffer"
    /\ IF decrypt(Ciphertext(c.key), c.password).ok
         THEN Completes(c, "downloadFile returns", "file", c.calls \cup {"decrypt"})
         ELSE NextServer(c, c.calls \cup {"decrypt"})

-----------------------------------------------------------------------------
(* save(): Drive.save() awaits the signer, then the publisher, and then    *)
(* folds the signed event in with update().  Other calls run between, and  *)
(* among them further calls of save().                                     *)

\* the signed event the signer returns for a template
Sign(t) == [t EXCEPT !.pubkey = PK]

\* a save() call suspended at pc ("signing", "publishing") with the template,
\* then the signed event, it holds, awaited by "caller" or by "upload"
SaveCall(pc, t, by) == [pc |-> pc, template |-> t, by |-> by]

\* save() up to its first await: returns at once when not modified, throws
\* when the template cannot be built, else hands the template to the signer
SaveBegin(now, by) ==
  /\ IF ~modified
       THEN /\ last' = Call("save", "void", <<>>, {}, 0)
            /\ UNCHANGED saves
     ELSE IF TemplateThrows(self)
       THEN /\ last' = Call("save", "throw", <<>>, {}, 0)
            /\ UNCHANGED saves
     ELSE /\ BagCardinality(saves) < MaxSaves
          /\ saves' = Add(saves, SaveCall("signing", createEventTemplate(self, now), by))
          /\ last' = Call("save signs", "await", <<>>, {"signer"}, now)
  /\ UNCHANGED <<encrypted, event, metadata, tree, modified, locked, logn, password,
                 blobCalls, adds>>

\* the signer resolves for the save() s: the signed event goes to the publisher
SaveSignedOf(s) ==
  /\ s.pc = "signing"
  /\ saves' = Add(Drop(saves, s), SaveCall("publishing", Sign(s.template), s.by))
  /\ last' = Call("save publishes", "await", <<>>, {"publisher"}, s.template.created_at)
  /\ UNCHANGED <<encrypted, event, metadata, tree, modified, locked, logn, password,
                 blobCalls, adds, up>>

\* the signer or the publisher rejects for the save() s: save() throws, and
\* so does the upload() that awaits it
SaveFailsOf(s) ==
  /\ saves' = Drop(saves, s)
  /\ last' = Call("save returns", "throw", <<>>, {}, s.template.created_at)
  /\ up' = IF s.by = "upload" THEN [up EXCEPT !.pc = "failed"] ELSE up
  /\ UNCHANGED <<encrypted, event, metadata, tree, modified, locked, logn, password,
                 blobCalls, adds>>

\* the publisher resolves for the save() s: this.update(signed), and save()
\* returns signed to the caller, or to the upload() that awaits it
SavePublishedOf(s) ==
  /\ s.pc = "publishing"
  /\ LET r == update(self, s.template)
     IN /\ Becomes(r.d)
        /\ last' = Call("save returns", IF r.ret = "throw" THEN "throw" ELSE "signed",
                        r.emits, {}, s.template.created_at)
        /\ up' = IF s.by # "upload" THEN up
                 ELSE [up EXCEPT !.pc = IF r.ret = "throw" THEN "failed" ELSE "saved"]
  /\ saves' = Drop(saves, s)
  /\ UNCHANGED <<blobCalls, adds>>

\* a save() in flight goes on
SaveSigned == \E s \in BagToSet(saves) : SaveSignedOf(s)
SaveFails == \E s \in BagToSet(saves) : SaveFailsOf(s)
SavePublished == \E s \in BagToSet(saves) : SavePublishedOf(s)

\* drive.save() called by the application
Save(now) == SaveBegin(now, "caller") /\ UNCHANGED up

-----------------------------------------------------------------------------
(* Upload (src/src/Upload.ts).  upload() runs from one await to the next;  *)
(* w is the drive, the Upload object u and the save() in flight.           *)

\* the path of the i-th file joined to basePath, and the descriptor a server
\* returns for it
UploadPath(i) == IF i = 1 THEN "a" ELSE "f/b"
UploadBlob(i) == IF i = 1 THEN M1 ELSE M2

\* the status record of a file when upload() starts
NewStatus == [complete |-> FALSE, pending |-> TRUE, serversComplete |-> 0,
              results |-> [s \in 1..NumServers |-> "none"]]

world ==
  [d |-> self, u |-> up, saves |-> saves]

\* upload() throws: the promise rejects, running stays true
UploadThrows(w) == [w EXCEPT !.u.pc = "failed"]

\* `await this.drive.save()` up to the await of save()
CallSave(w, now) ==
  LET w1 == [w EXCEPT !.u.saves = @ + 1]
  IN IF ~w.d.modified THEN [w1 EXCEPT !.u.pc = "saved"]
     ELSE IF TemplateThrows(w.d) THEN UploadThrows(w1)
     ELSE [w1 EXCEPT !.saves = Add(@, SaveCall("signing", createEventTemplate(w.d, now),
                                               "upload")),
                     !.u.pc = "saving"]

\* BlossomClient.createUploadAuth(signer, file, message) is called
CallAuth(w) == [w EXCEPT !.u.pc = "auth", !.u.auths = @ + 1]

\* BlossomClient.uploadBlob(server, file, {auth}) is called for server j
CallUpload(w, j) == [w EXCEPT !.u.pc = "upload", !.u.j = j, !.u.attempts = @ + 1]

\* the body of the loop over the files, for file i, up to its first await;
\* a file pushed after upload() made the status records has none, and
\* `status.pending = false` throws a TypeError
StartFile(w, i) ==
  IF i > Len(w.u.status) THEN UploadThrows(w)
  ELSE LET w1 == [w EXCEPT !.u.i = i, !.u.status[i].pending = FALSE]
       IN IF ~w.d.encrypted THEN CallAuth(w1)
          ELSE IF BlobGuardThrows(w.d) THEN UploadThrows(w1)
          ELSE [w1 EXCEPT !.u.pc = "encrypt"]

\* the loop over the files, which reads files.length as it is now, goes on
\* to the next file, or ends with save()
NextFile(w, now) ==
  IF w.u.i < w.u.n THEN StartFile(w, w.u.i + 1) ELSE CallSave(w, now)

\* the loop over the servers has ended for file i
FileDone(w, now) == NextFile([w EXCEPT !.u.status[w.u.i].complete = TRUE], now)

\* the state becomes w, and the step of upload() returned ret
Resumes(w, ret) ==
  /\ Becomes(w.d)
  /\ up' = w.u
  /\ saves' = w.saves
  /\ UNCHANGED <<blobCalls, adds>>
  /\ last' = Call("upload", ret, <<>>, {}, 0)

\* what upload() returned when it is suspended at, or ended with, w.u.pc
UploadRet(w) ==
  IF w.u.pc = "failed" THEN "throw" ELSE IF w.u.pc = "done" THEN "void" ELSE "await"

\* this.files.push({id, file, path})
Push(u) == [u EXCEPT !.n = @ + 1]

\* a call of addFileList or addFileSystemEntry suspended at the await pc,
\* with the number of files it has still to read or push
AddCall(op, pc, left) == [op |-> op, pc |-> pc, left |-> left]

\* the files the calls in flight have still to push
RECURSIVE LeftIn(_)
LeftIn(bag) ==
  IF BagToSet(bag) = {} THEN 0
  ELSE LET c == CHOOSE c \in BagToSet(bag) : TRUE
       IN c.left + LeftIn(Drop(bag, c))

\* a step of an add method: what it returned, with the Upload object and the
\* calls in flight afterwards
Adds(op, ret, u, bag) ==
  /\ up' = u
  /\ adds' = bag
  /\ last' = Call(op, ret, <<>>, {}, 0)
  /\ UNCHANGED <<encrypted, event, metadata, tree, modified, locked, logn, password,
                 saves, blobCalls>>

\* upload.addFile(file, path), whatever the batch is doing
AddFile ==
  /\ up.n + LeftIn(adds) < MaxFiles
  /\ Adds("addFile", "void", Push(up), adds)

\* upload.addFileList(fileList) with k files: the first addFile pushes its
\* file before the first await
AddFileList(k) ==
  /\ up.n + LeftIn(adds) + k <= MaxFiles
  /\ IF k = 0 THEN Adds("addFileList", "void", up, adds)
     ELSE /\ BagCardinality(adds) < MaxAdds
          /\ Adds("addFileList", "await", Push(up),
                  Add(adds, AddCall("addFileList", "addFile", k - 1)))

\* `await this.addFile(file)` resolves: the next file is pushed, or the loop
\* has ended
AddFileListResumes ==
  \E c \in BagToSet(adds) :
    /\ c.op = "addFileList"
    /\ IF c.left = 0 THEN Adds("addFileList returns", "void", up, Drop(adds, c))
       ELSE Adds("addFileList resumes", "await", Push(up),
                 Add(Drop(adds, c), [c EXCEPT !.left = @ - 1]))

\* upload.addFileSystemEntry(entry) for a file entry, for a directory entry
\* that holds k file entries, or for an entry that is neither
AddFileSystemEntry(kind, k) ==
  IF kind = "other" THEN Adds("addFileSystemEntry", "void", up, adds)
  ELSE /\ BagCardinality(adds) < MaxAdds
       /\ up.n + LeftIn(adds) + (IF kind = "file" THEN 1 ELSE k) <= MaxFiles
       /\ Adds("addFileSystemEntry", "await", up,
               Add(adds, IF kind = "file" THEN AddCall("addFileSystemEntry", "readFile", 1)
                         ELSE AddCall("addFileSystemEntry", "readDirectory", k)))

\* readFileSystemDirectory or readFileSystemFile settles.  The directory
\* reader rejects: the call throws; resolves: the entries are read in turn.
\* The file reader resolves: the file is pushed; rejects: the error is caught
\* and logged.
EntryRead(ok) ==
  \E c \in BagToSet(adds) :
    /\ c.op = "addFileSystemEntry"
    /\ IF c.pc = "readDirectory"
         THEN IF ~ok THEN Adds("addFileSystemEntry returns", "throw", up, Drop(adds, c))
              ELSE IF c.left = 0
                THEN Adds("addFileSystemEntry returns", "void", up, Drop(adds, c))
              ELSE Adds("addFileSystemEntry resumes", "await", up,
                        Add(Drop(adds, c), [c EXCEPT !.pc = "readFile"]))
         ELSE LET u == IF ok THEN Push(up) ELSE up
              IN IF c.left = 1
                   THEN Adds("addFileSystemEntry returns", "void", u, Drop(adds, c))
                   ELSE Adds("addFileSystemEntry resumes", "await", u,
                             Add(Drop(adds, c), [c EXCEPT !.left = @ - 1]))

\* upload() whose guard tests running only: a complete batch starts again
Upload_restartsComplete(now) ==
  /\ IF up.running /\ ~up.complete
       THEN /\ last' = Call("upload", "noop", <<>>, {}, 0)
            /\ UNCHANGED <<encrypted, event, metadata, tree, modified, locked, logn,
                           password, saves, blobCalls, adds, up>>
       ELSE LET w == [world EXCEPT !.u.running = TRUE, !.u.complete = FALSE,
                                   !.u.status = [f \in 1..up.n |-> NewStatus]]
                w1 == NextFile(w, now)
            IN Resumes(w1, UploadRet(w1))

\* upload.upload(): returns at once when running or complete, else sets
\* running, creates the status records and runs to its first await
Upload(now) ==
  /\ IF up.running \/ up.complete
       THEN /\ last' = Call("upload", "noop", <<>>, {}, 0)
            /\ UNCHANGED <<encrypted, event, metadata, tree, modified, locked, logn,
                           password, saves, blobCalls, adds, up>>
       ELSE LET w == [world EXCEPT !.u.running = TRUE,
                                   !.u.status = [f \in 1..up.n |-> NewStatus]]
                w1 == NextFile(w, now)
            IN Resumes(w1, UploadRet(w1))

\* encryptBlob resolves
UploadEncrypted ==
  /\ up.pc = "encrypt"
  /\ Resumes(CallAuth(world), "await")

\* createUploadAuth resolves with the token, or the signer rejects
UploadAuthorized(ok, now) ==
  /\ up.pc = "auth"
  /\ LET w1 == IF ~ok THEN UploadThrows(world)
               ELSE IF NumServers = 0 THEN FileDone(world, now)
               ELSE CallUpload(world, 1)
     IN Resumes(w1, UploadRet(w1))

\* uploadBlob resolves with the descriptor ("ok"), rejects with an Error
\* ("error") or rejects with a value that is no Error ("other")
UploadSettled(outcome, now) ==
  /\ up.pc = "upload"
  /\ LET i == up.i
         j == up.j
         set == setFile(tree, UploadPath(i), UploadBlob(i))
         \* blobs[server][id] = blob; results[server] = success; drive.setFile
         ok == [world EXCEPT !.u.blobs = @ \cup {<<j, i>>},
                             !.u.status[i].results[j] = "success"]
         stored == [ok EXCEPT !.d.tree = set.tree, !.d.modified = TRUE]
         \* errors[server][id] = error; results[server] = failure
         Caught(w) == [w EXCEPT !.u.errors = @ \cup {<<j, i>>},
                                !.u.status[i].results[j] = "failure"]
         w1 == IF outcome = "ok" THEN (IF set.ok THEN stored ELSE Caught(ok))
               ELSE IF outcome = "error" THEN Caught(world)
               ELSE world
         w2 == [w1 EXCEPT !.u.status[i].serversComplete = @ + 1]
         w3 == IF j < NumServers THEN CallUpload(w2, j + 1) ELSE FileDone(w2, now)
     IN Resumes(w3, UploadRet(w3))

\* drive.save() has resolved: complete = true
UploadCompletes ==
  /\ up.pc = "saved"
  /\ Resumes([world EXCEPT !.u.complete = TRUE, !.u.pc = "done"], "void")

-----------------------------------------------------------------------------
(* Specifications *)

\* The synchronisation engine: inbound events, local mutations, save() with
\* its two awaits, reset(), and the lock lifecycle of the encrypted drive.
Next ==
  \/ \E ev \in InboundEvents : Update(ev)
  \/ Reset
  \/ SetName
  \/ \E pw \in Passwords : Unlock(pw)
  \/ Lock
  \/ SetPassword("p1", 12)
  \/ \E now \in Times : Save(now)
  \/ SaveSigned
  \/ SaveFails
  \/ SavePublished

Spec == Init /\ [][Next]_vars

\* The accessors of Drive, on a drive that relays feed with events.
AccessorNext ==
  \/ \E ev \in InboundEvents : Update(ev)
  \/ Reset
  \/ SetIdentifier
  \/ SetName
  \/ SetDescription
  \/ SetServers
  \/ \E path \in Paths : Remove(path)
  \/ \E src, dest \in FilePaths : Move(src, dest)
  \/ \E path \in FilePaths, meta \in FileMetadata : SetFile(path, meta)
  \/ \E path \in FolderPaths, create \in BOOLEAN : GetFolder(path, create)
  \/ \E path \in FolderPaths, create \in BOOLEAN : GetPath(path, create)

AccessorSpec == Init /\ [][AccessorNext]_vars

\* One upload batch on a drive that relays feed with events.
UploadNext ==
  \/ AddFile
  \/ \E k \in 0..MaxFiles : AddFileList(k)
  \/ AddFileListResumes
  \/ \E kind \in {"file", "directory", "other"}, k \in 0..MaxFiles :
       AddFileSystemEntry(kind, k)
  \/ \E ok \in BOOLEAN : EntryRead(ok)
  \/ \E now \in Times : Upload(now)
  \/ UploadEncrypted
  \/ \E ok \in BOOLEAN, now \in Times : UploadAuthorized(ok, now)
  \/ \E outcome \in {"ok", "error", "other"}, now \in Times : UploadSettled(outcome, now)
  \/ UploadCompletes
  \/ SaveSigned
  \/ SaveFails
  \/ SavePublished
  \/ \E ev \in CompleteEvents : Update(ev)
  \/ \E pw \in Passwords : SetPassword(pw, 12)
  \/ \E pw \in Passwords : Unlock(pw)
  \/ Lock

UploadSpec == Init /\ [][UploadNext]_vars

\* save() racing events from relays, all of them well-formed.
SaveNext ==
  \/ \E ev \in WellFormedEvents : Update(ev)
  \/ SetFile("a", M1)
  \/ SetName
  \/ SetPassword("p1", 12)
  \/ Unlock("p1")
  \/ \E now \in Times : Save(now)
  \/ SaveSigned
  \/ SaveFails
  \/ SavePublished

SaveSpec == Init /\ [][SaveNext]_vars

\* The blob methods of the encrypted drive, with their awaits, racing the
\* lock lifecycle, inbound events and save().
BlobNext ==
  \/ \E ev \in CompleteEvents : Update(ev)
  \/ SetName
  \/ \E pw \in Passwords : Unlock(pw)
  \/ Lock
  \/ SetPassword("p1", 12)
  \/ EncryptBlob
  \/ EncryptBlobResumes
  \/ \E key \in BlobKeys : DecryptBlob(key)
  \/ DecryptBlobResumes
  \/ DownloadFile("a")
  \/ \E answer \in BlobKeys \cup {"reject"} : DownloadAnswered(answer)
  \/ DownloadDecrypted
  \/ \E now \in Times : Save(now)
  \/ SaveSigned
  \/ SaveFails
  \/ SavePublished

BlobSpec == Init /\ [][BlobNext]_vars

-----------------------------------------------------------------------------
(* Properties *)

\* whether update(ev) can read ev in the current state: a plain drive needs
\* the identifier tag; a locked encrypted drive reads no content; an
\* unlocked one needs the password the content was encrypted under and the
\* identifier tag inside
Readable(ev) ==
  IF ~encrypted THEN HasIdentifier(ev.tags)
  ELSE IF locked THEN TRUE
  ELSE /\ password # NoPassword
       /\ ev.content.key = password
       /\ HasIdentifier(ev.content.data)

\* the timestamp condition of update(ev) in the current state
Supersedes(ev) == event = NoEvent \/ ev.created_at > event.created_at

\* update(ev) changed nothing and raised no notification
Ignored ==
  /\ UNCHANGED <<event, metadata, tree, modified>>
  /\ last'.emits = <<>>

\* C1 as stated: update(event) adopts the event and returns true exactly when
\* there is no resident event or the event is strictly newer, and otherwise
\* returns false, changes nothing and raises no notification.
C1_UpdateIffNewer ==
  [][last'.op = "update" =>
       \A ev \in InboundEvents :
         Update(ev) =>
           /\ (last'.ret = "true" /\ event' = ev) <=> Supersedes(ev)
           /\ ~Supersedes(ev) => (last'.ret = "false" /\ Ignored)]_vars

\* C1, amended: update(event) returns true only when there is no resident
\* event or the event is strictly newer, and then it has adopted the event;
\* it does return true in that case when the event can be read and throws
\* when it cannot; with an older or equal timestamp it returns false, changes
\* nothing and raises no notification.
C1_UpdateGate ==
  [][last'.op = "update" =>
       \A ev \in InboundEvents :
         Update(ev) =>
           /\ last'.ret = "true" => (Supersedes(ev) /\ event' = ev)
           /\ (Supersedes(ev) /\ Readable(ev)) => (last'.ret = "true" /\ event' = ev)
           /\ (Supersedes(ev) /\ ~Readable(ev)) => last'.ret = "throw"
           /\ ~Supersedes(ev) => (last'.ret = "false" /\ Ignored)]_vars

\* a dirty drive has refused an event that is not newer than its resident one
C1_Witness ==
  /\ last.op = "update"
  /\ last.ret = "false"
  /\ event # NoEvent
  /\ modified

\* C2: the created_at of the resident event never decreases, and a resident
\* event is never dropped.
C2_TimestampMonotonic ==
  [][event # NoEvent =>
       (event' # NoEvent /\ event'.created_at >= event.created_at)]_vars

\* the resident event has the greatest timestamp and a later update() with an
\* event that is not newer was refused
C2_Witness ==
  /\ event # NoEvent
  /\ event.created_at = MaxTime
  /\ last.op = "update"
  /\ last.ret = "false"

\* C3 as stated: when save() of a dirty drive returns the signed event,
\* modified is false and the resident event carries the created_at that save()
\* stamped on its template.
C3_SaveBecomesResident ==
  (last.op = "save returns" /\ last.ret = "signed") =>
    /\ ~modified
    /\ event # NoEvent
    /\ event.created_at = last.stamp


-----------------------------------------------------------------------------

\* the mutating accessors of Drive
MutatingAccessors ==
  {"remove", "move", "setFile", "getFolder create", "getPath create",
   "set identifier", "set name", "set description", "set servers"}

\* C4 as stated: a mutating accessor that returns has set modified, has
\* raised exactly the "change" notification and has invoked neither the
\* signer nor the publisher.
C4_AccessorsMarkDirty ==
  (last.op \in MutatingAccessors /\ last.ret = "void") =>
    /\ modified
    /\ last.emits = <<"change">>
    /\ last.calls \cap {"signer", "publisher"} = {}

-----------------------------------------------------------------------------

\* the metadata a manifest encodes: name and description default to the
\* empty string, the servers are the origin roots of the server and r tags
EncodedMetadata(ev) ==
  LET tags == ManifestOf(ev)
  IN [name |-> Coalesce(TagValue(tags, "name"), ""),
      identifier |-> TagValue(tags, "d"),
      description |-> Coalesce(TagValue(tags, "description"), ""),
      servers |-> RootURLs(TagsWith(tags, {"r", "server"})),
      pubkey |-> ev.pubkey,
      treeTags |-> TagsWith(tags, {"x", "folder"})]

\* the tree a manifest encodes
EncodedTree(ev) == createTreeFromTags(TagsWith(ManifestOf(ev), {"x", "folder"}))

\* update(ev) replaced the local state by what ev encodes
Replaced(ev) ==
  /\ ~modified'
  /\ metadata' = EncodedMetadata(ev)
  /\ tree' = EncodedTree(ev)
  /\ last'.emits \in {<<"change", "update">>, <<"update", "change">>}

\* C5 as stated, on a plain Drive: whenever update(event) returns true the
\* drive has modified = false, the metadata and the tree the event encodes,
\* and one "change" and one "update" notification were raised.
C5_UpdateReplacesPlain ==
  [][(last'.op = "update" /\ last'.ret = "true" /\ ~encrypted) =>
       \A ev \in InboundEvents : Update(ev) => Replaced(ev)]_vars

\* C5 as stated, on any drive, plain or encrypted, locked or unlocked
C5_UpdateReplaces ==
  [][(last'.op = "update" /\ last'.ret = "true") =>
       \A ev \in InboundEvents : Update(ev) => Replaced(ev)]_vars

-----------------------------------------------------------------------------

\* C6 as stated: unlock(password) on a locked drive whose resident event
\* cannot be decrypted with the password throws and leaves the drive locked,
\* with the event, the metadata, the tree, modified, logn and the password
\* association as they were.
C6_FailedUnlockChangesNothing ==
  [][last'.op = "unlock" =>
       \A pw \in Passwords :
         (/\ Unlock(pw)
          /\ locked
          /\ event # NoEvent
          /\ ~decrypt(event.content, pw).ok)
         => /\ last'.ret = "throw"
            /\ locked'
            /\ UNCHANGED <<event, metadata, tree, modified, logn, password>>]_vars

-----------------------------------------------------------------------------

\* C7 as stated: after lock() the tree is the empty root folder, the metadata
\* equals the defaults and no password is associated, whatever the state
\* before the call.
C7_LockAlwaysClears ==
  last.op = "lock" =>
    /\ tree = EmptyTree
    /\ metadata = getEmptyMetadata
    /\ password = NoPassword

\* C7, amended: lock() on an unlocked drive leaves the empty root folder, the
\* default metadata and no password; lock() on a locked drive changes
\* nothing.
C7_LockClearsUnlocked ==
  [][(last'.op = "lock" /\ Lock) =>
       IF ~locked
         THEN /\ tree' = EmptyTree
              /\ metadata' = getEmptyMetadata
              /\ password' = NoPassword
         ELSE UNCHANGED <<event, metadata, tree, modified, locked, logn, password>>]_vars

\* lock() has cleared a drive that was unlocked on a resident event: only
\* lock() leaves a drive that is not locked without a password
C7_Witness ==
  /\ last.op = "lock"
  /\ ~locked
  /\ event # NoEvent
  /\ tree = EmptyTree
  /\ password = NoPassword

-----------------------------------------------------------------------------

\* C8: on an encrypted drive that is locked or has no password, encryptBlob,
\* decryptBlob and downloadFile throw before any encryption, decryption or
\* network call; save() of a dirty drive without a password throws before the
\* signer or the publisher is invoked.  (These calls leave the drive as it
\* is, so the state after the call shows the state it was made in.)
C8_SecurityStateFailsFast ==
  /\ (/\ last.op \in {"encryptBlob", "decryptBlob", "downloadFile"}
      /\ (locked \/ password = NoPassword))
     => (last.ret = "throw" /\ last.calls = {})
  /\ (/\ last.op \in {"save", "save signs"}
      /\ encrypted
      /\ modified
      /\ password = NoPassword)
     => (last.op = "save" /\ last.ret = "throw" /\ last.calls = {})

\* encryptBlob has thrown on a drive that is not locked and has no password
C8_Witness ==
  /\ last.op = "encryptBlob"
  /\ last.ret = "throw"
  /\ ~locked
  /\ password = NoPassword

-----------------------------------------------------------------------------

\* C9: the template an encrypted drive hands to the signer has kind 30564 and
\* public tags that are one "d" tag and one "scrypt-logn" tag, nothing else.
C9_OnlyPublicTags ==
  \A s \in BagToSet(saves) :
    (encrypted /\ s.pc = "signing") =>
      /\ s.template.kind = ENCRYPTED_DRIVE_KIND
      /\ \A i \in 1..Len(s.template.tags) : s.template.tags[i][1] \in {"d", "scrypt-logn"}
      /\ Len(TagsWith(s.template.tags, {"scrypt-logn"})) = 1
      /\ Len(TagsWith(s.template.tags, {"d"})) = 1

\* an unlocked drive with a name, a server and a file hands a template to the
\* signer
C9_Witness ==
  /\ encrypted
  /\ event # NoEvent
  /\ \E s \in BagToSet(saves) :
       /\ s.pc = "signing"
       /\ s.template.content.data # <<>>
       /\ TagValue(s.template.content.data, "name") = "n2"
       /\ TagsWith(s.template.content.data, {"server", "x"}) # <<>>

-----------------------------------------------------------------------------

\* C10 as stated: once upload() has started, has attempted every file against
\* every server and has settled, the batch is complete and drive.save() was
\* invoked exactly once; it is never left running and not complete.
C10_BatchCompletes ==
  (/\ up.running
   /\ up.pc \in {"done", "failed"}
   /\ \A f \in 1..up.n :
        f <= Len(up.status) /\ up.status[f].serversComplete = NumServers)
  => (up.complete /\ up.saves = 1)

-----------------------------------------------------------------------------

\* the attempt of file i on server j that is awaited has failed: uploadBlob
\* rejected, with an Error or with another value
AttemptFails ==
  /\ up.pc = "upload"
  /\ \E outcome \in {"error", "other"}, now \in Times : UploadSettled(outcome, now)

\* C11 as stated: when the upload of file i to server j fails, the failure is
\* recorded for the pair in errors and in status.results, the tree is not
\* touched, the next server is attempted, and after the last server the file
\* is complete with serversComplete = the number of servers and the next file
\* is started.
C11_FailureRecorded ==
  [][AttemptFails =>
       LET i == up.i
           j == up.j
       IN /\ <<j, i>> \in up'.errors
          /\ up'.status[i].results[j] = "failure"
          /\ UNCHANGED <<tree, modified>>
          /\ up'.status[i].serversComplete = up.status[i].serversComplete + 1
          /\ j < NumServers => (up'.pc = "upload" /\ up'.i = i /\ up'.j = j + 1)
          /\ j = NumServers =>
               /\ up'.status[i].complete
               /\ up'.status[i].serversComplete = NumServers
               /\ i < up.n => /\ up'.i = i + 1
                              /\ i + 1 <= Len(up'.status)
                              /\ ~up'.status[i + 1].pending]_vars

-----------------------------------------------------------------------------

\* upload() has just marked the batch complete
BatchJustCompleted == up.complete /\ last.op = "upload" /\ last.ret = "void"

\* file f of the batch had a successful upload on some server
Succeeded(f) ==
  f <= Len(up.status) /\ \E j \in 1..NumServers : up.status[f].results[j] = "success"

\* C12 as stated: when upload() has marked the batch complete, every file
\* with a successful upload has its entry, with the uploaded hash and size, at
\* its path in the tree of the drive, and a path of the batch none of whose
\* files succeeded holds nothing but what the resident event put there.
C12_UploadedFilesInTree ==
  BatchJustCompleted =>
    /\ \A f \in 1..up.n :
         Succeeded(f) =>
           /\ IsFile(tree[UploadPath(f)])
           /\ tree[UploadPath(f)].sha256 = UploadBlob(f).sha256
           /\ tree[UploadPath(f)].size = UploadBlob(f).size
    /\ \A f \in 1..up.n :
         (/\ ~\E g \in 1..up.n : UploadPath(g) = UploadPath(f) /\ Succeeded(g)
          /\ tree[UploadPath(f)] # Absent)
         => (event # NoEvent /\ EncodedTree(event)[UploadPath(f)] = tree[UploadPath(f)])

-----------------------------------------------------------------------------

\* the number of attempts the status records of the files 1..k count
RECURSIVE AttemptsCounted(_)
AttemptsCounted(k) ==
  IF k = 0 THEN 0 ELSE up.status[k].serversComplete + AttemptsCounted(k - 1)

\* every call of uploadBlob is the attempt of another (file, server) pair, the
\* token is created at most once for each file reached and drive.save() is
\* invoked at most once
CalledAtMostOnce ==
  /\ \A f \in 1..Len(up.status) : up.status[f].serversComplete <= NumServers
  /\ up.attempts =
       AttemptsCounted(Len(up.status)) + (IF up.pc = "upload" THEN 1 ELSE 0)
  /\ up.attempts <= up.n * NumServers
  /\ up.auths <= up.i
  /\ up.auths <= up.n
  /\ up.saves <= 1

\* an upload() call on a batch that is running or complete has no effect
UploadIsNoOp ==
  ((up.running \/ up.complete) /\ \E now \in Times : Upload(now))
    => UNCHANGED <<up, event, metadata, tree, modified, locked, logn, password,
                   saves, blobCalls, adds>>

\* C13: an upload() call made while the batch is running or after it is
\* complete returns without effect, and over any sequence of upload() calls
\* each (file, server) pair is uploaded at most once, the token is created at
\* most once per file and drive.save() is invoked at most once.
C13_NonRestartable == [][UploadIsNoOp]_vars /\ []CalledAtMostOnce

\* upload() was called again on a complete batch of at least one file whose
\* pairs were all attempted, and returned at once
C13_Witness ==
  /\ last.op = "upload"
  /\ last.ret = "noop"
  /\ up.complete
  /\ up.n >= 1
  /\ up.attempts = up.n * NumServers
  /\ up.saves = 1

-----------------------------------------------------------------------------
(* Upload.progress.  A quotient is kept as [num, den]; den = 0 is the        *)
(* division 0 / 0 of the source, which is NaN.                                *)

\* Object.keys(this.blobs[server]).length + Object.keys(this.errors[server]).length
ServerCount(u, j) ==
  Cardinality({p \in u.blobs : p[1] = j}) + Cardinality({p \in u.errors : p[1] = j})

RECURSIVE SumServerCounts(_, _)
SumServerCounts(u, j) == IF j = 0 THEN 0 ELSE ServerCount(u, j) + SumServerCounts(u, j - 1)

\* serverProgress[server] = (blobs + errors) / this.files.length
serverProgress(u, j) == [num |-> ServerCount(u, j), den |-> u.n]

\* get progress(): the sum of serverProgress over the servers / servers.length
progress(u) == [num |-> SumServerCounts(u, NumServers), den |-> u.n * NumServers]

\* the quotient q is a number and is at most 1; is exactly 1
AtMostOne(q) == q.den = 0 \/ q.num <= q.den
IsOne(q) == q.den # 0 /\ q.num = q.den

\* C14 as stated: the progress of a server, (recorded successes + recorded
\* failures) / number of files, never exceeds 1, and when the batch is
\* complete every server has successes + failures = the number of files and
\* the overall progress is exactly 1.
C14_ProgressReachesOne ==
  /\ \A j \in 1..NumServers : AtMostOne(serverProgress(up, j))
  /\ up.complete =>
       /\ \A j \in 1..NumServers : ServerCount(up, j) = up.n
       /\ IsOne(progress(up))

-----------------------------------------------------------------------------

\* reset() on a drive that well-formed events and local mutations change
ResetNext ==
  \/ \E ev \in WellFormedEvents : Update(ev)
  \/ Reset
  \/ SetName
  \/ SetFile("a", M1)
  \/ \E pw \in Passwords : SetPassword(pw, 12)
  \/ \E pw \in Passwords : Unlock(pw)

ResetSpec == Init /\ [][ResetNext]_vars

\* C15 as stated, on a plain Drive: after reset() returns, modified is false
\* and the tree and the metadata are what the resident event encodes, or the
\* empty tree and the default metadata when there is no resident event.
C15_ResetDiscards ==
  (last.op = "reset" /\ last.ret = "void" /\ ~encrypted) =>
    /\ ~modified
    /\ IF event = NoEvent
         THEN tree = EmptyTree /\ metadata = getEmptyMetadata
         ELSE tree = EncodedTree(event) /\ metadata = EncodedMetadata(event)

-----------------------------------------------------------------------------

\* no element occurs twice in the sequence s
NoDuplicates(s) == \A i, j \in 1..Len(s) : s[i] = s[j] => i = j

\* C16 as stated: the servers list a drive holds after update() adopted a
\* manifest event and read its tags contains each storage server at most once.
C16_ServersDeduplicated ==
  (last.op = "update" /\ last.ret = "true" /\ (encrypted => ~locked))
    => NoDuplicates(metadata.servers)

-----------------------------------------------------------------------------
(* The locked partial update of EncryptedDrive, on manifests whose public    *)
(* scrypt-logn tag is missing, not a number, zero, negative, inside the      *)
(* range and above it.                                                       *)

LognValues == {"abc", "0", "-1", "1", "12", "22", "23"}

LognEvents ==
  {[kind |-> ENCRYPTED_DRIVE_KIND, content |-> encrypt(TagsFull, "p1", 12),
    created_at |-> ts, tags |-> <<<<"d", "d1">>>>, pubkey |-> PK] : ts \in Times}
  \cup
  {[kind |-> ENCRYPTED_DRIVE_KIND, content |-> encrypt(TagsFull, "p1", 12),
    created_at |-> ts, tags |-> <<<<"d", "d2">>, <<"scrypt-logn", v>>>>,
    pubkey |-> PK] : ts \in Times, v \in LognValues}

LognNext ==
  \/ \E ev \in LognEvents : encrypted /\ Update(ev)
  \/ SetName
  \/ SetFile("a", M1)
  \/ \E pw \in Passwords : SetPassword(pw, 12)
  \/ \E pw \in Passwords : Unlock(pw)
  \/ Lock

LognSpec == Init /\ [][LognNext]_vars

\* the cost the claim gives for an event: the integer the scrypt-logn tag
\* writes when it is one of 1..22, else the default
ClaimedLogn(ev) ==
  LET v == TagValue(ev.tags, "scrypt-logn")
  IN IF \E n \in 1..MAX_SCRYPT_LOGN : String(n) = v
       THEN CHOOSE n \in 1..MAX_SCRYPT_LOGN : String(n) = v
       ELSE DEFAULT_SCRYPT_LOGN

\* C17: an update() applied while the EncryptedDrive is locked sets the
\* identifier from the "d" tag and logn to the value of the scrypt-logn tag
\* when it is in 1..22 and to 10 otherwise, and leaves name, description,
\* servers, treeTags and the tree as they were.
C17_LockedUpdateIsPartial ==
  [][(encrypted /\ locked /\ last'.op = "update" /\ last'.ret = "true") =>
       \A ev \in LognEvents :
         Update(ev) =>
           /\ event' = ev
           /\ metadata'.identifier = TagValue(ev.tags, "d")
           /\ logn' = ClaimedLogn(ev)
           /\ metadata'.name = metadata.name
           /\ metadata'.description = metadata.description
           /\ metadata'.servers = metadata.servers
           /\ metadata'.treeTags = metadata.treeTags
           /\ tree' = tree
           /\ locked']_vars

\* a locked drive with a local name and file has adopted an event whose
\* scrypt-logn tag is above the range, and logn is the default
C17_Witness ==
  /\ encrypted
  /\ locked
  /\ last.op = "update"
  /\ last.ret = "true"
  /\ event # NoEvent
  /\ TagValue(event.tags, "scrypt-logn") = "23"
  /\ logn = DEFAULT_SCRYPT_LOGN
  /\ metadata.name = "n2"
  /\ tree # EmptyTree

-----------------------------------------------------------------------------

\* C18 as stated: after lock() returns on an unlocked EncryptedDrive the
\* locked flag is true.
C18_LockLocks ==
  [][(encrypted /\ ~locked /\ last'.op = "lock" /\ Lock) => locked']_vars

-----------------------------------------------------------------------------

\* C19 as stated: an update(event) that throws leaves the resident event, the
\* metadata, the tree and modified as they were before the call.
C19_FailedUpdateChangesNothing ==
  [][(last'.op = "update" /\ last'.ret = "throw")
       => UNCHANGED <<event, metadata, tree, modified>>]_vars

-----------------------------------------------------------------------------

\* the name and the tree a manifest event encodes are those of the drive
Contains(ev) ==
  /\ ev # NoEvent
  /\ TagValue(ManifestOf(ev), "name") = metadata.name
  /\ EncodedTree(ev) = tree

\* the save() s awaits the publisher and the drive has a local mutation of
\* its name or tree that the template of s does not contain
MutatedWhileSaving(s) ==
  /\ s.pc = "publishing"
  /\ modified
  /\ ~Contains(s.template)

\* C20 as stated: when a save() completes on a drive that was mutated while
\* the save() was suspended, either the resident event contains the mutation
\* or the drive still has it, with modified = true.
C20_MutationNotLost ==
  [][(\E s \in BagToSet(saves) :
          MutatedWhileSaving(s) /\ (SavePublishedOf(s) \/ SaveFailsOf(s))) =>
       \/ (/\ event' # NoEvent
           /\ TagValue(ManifestOf(event'), "name") = metadata.name
           /\ EncodedTree(event') = tree)
       \/ (modified' /\ tree' = tree /\ metadata'.name = metadata.name)]_vars

-----------------------------------------------------------------------------

\* save() on a drive whose servers list the application sets
ServersNext ==
  \/ \E ev \in WellFormedEvents : Update(ev)
  \/ SetServers
  \/ SetPassword("p1", 12)
  \/ Unlock("p1")
  \/ \E now \in Times : Save(now)
  \/ SaveSigned
  \/ SaveFails
  \/ SavePublished

ServersSpec == Init /\ [][ServersNext]_vars

\* the servers a manifest lists, as a set
ServersListed(ev) ==
  {ManifestOf(ev)[i][2] :
     i \in {k \in 1..Len(ManifestOf(ev)) : ManifestOf(ev)[k][1] \in {"r", "server"}}}

\* the save() s that awaits the publisher serialized the servers list the
\* drive holds now, a list of distinct normalized URLs
SavesItsServers(s) ==
  /\ s.pc = "publishing"
  /\ Len(metadata.servers) >= 1
  /\ NoDuplicates(metadata.servers)
  /\ \A i \in 1..Len(metadata.servers) : RootURL(metadata.servers[i]) = metadata.servers[i]
  /\ ServersListed(s.template) = {metadata.servers[i] : i \in 1..Len(metadata.servers)}

\* C21 as stated: after a successful save() whose signed event became the
\* resident event, the servers list of the drive is the same sequence, in the
\* same order, as before the save.
C21_SavePreservesServers ==
  [][(\E s \in BagToSet(saves) :
          /\ SavesItsServers(s)
          /\ SavePublishedOf(s)
          /\ last'.ret = "signed"
          /\ event' = s.template)
       => metadata'.servers = metadata.servers]_vars

====
